---- MODULE Spec2Model ----
(***************************************************************************)
(* A model of the phasmo-server simulation core: the room graph and its    *)
(* pathfinder (map.rs), the ghost agent (ghost.rs), the Simulation with    *)
(* its event scheduler, tick algorithm and player registry (sim.rs), and   *)
(* the tick driver and message handlers that share it (server.rs).         *)
(*                                                                         *)
(* Conventions.                                                            *)
(*   Option<T>   a sequence of length 0 (None) or 1 (Some(x)).             *)
(*   Duration    a natural number of milliseconds.                         *)
(*   f64 sanity  a fixed-point integer, 100000 units to 1.0, so that the   *)
(*               drain of one 33 ms tick (0.05 * 0.033 = 0.00165) is the   *)
(*               exact integer 165.                                        *)
(*   f64 chance  a percentage: 0.5 is 50, 1.25 is 125.                     *)
(*   randomness  every draw of rand::thread_rng is an argument of the      *)
(*               operator that models the drawing function; the actions    *)
(*               choose it with \E over the values the draw can yield.     *)
(***************************************************************************)
EXTENDS Integers, Sequences, FiniteSets, TLC

\* ---------------------------------------------------------------- helpers

None == <<>>
Some(x) == <<x>>
is_some(o) == Len(o) > 0
unwrap(o) == o[1]

from_secs(s) == s * 1000
from_millis(ms) == ms

\* Vec::reverse
reverse(v) == [i \in 1..Len(v) |-> v[Len(v) + 1 - i]]

\* the elements of a sequence
Elems(v) == {v[i] : i \in 1..Len(v)}

\* utils::roll(chance): gen_range(0.0..1.0) < chance. The set of outcomes the
\* draw can produce: always true from chance 1.0 up, never true at 0.0 or below.
roll(chance) ==
    IF chance >= 100 THEN {TRUE}
    ELSE IF chance <= 0 THEN {FALSE}
    ELSE {TRUE, FALSE}

\* ---------------------------------------------------------------- map.rs

Room(label, connected_rooms) ==
    [label |-> label, connected_rooms |-> connected_rooms]

\* Map::new: the reference topology, rooms[i + 1] is the room of label i
MapNew ==
    << Room(0, <<1, 2, 13>>),
       Room(1, <<0>>),
       Room(2, <<0, 3, 4, 6>>),
       Room(3, <<2, 4>>),
       Room(4, <<2, 3, 5>>),
       Room(5, <<4>>),
       Room(6, <<2, 7>>),
       Room(7, <<6>>),
       Room(8, <<9>>),
       Room(9, <<8, 13>>),
       Room(10, <<11, 13, 9>>),
       Room(11, <<10>>),
       Room(12, <<13>>),
       Room(13, <<0, 9, 10, 12>>) >>

\* the 3-room linear topology 0 - 1 - 2 of the movement scenario
MapLinear ==
    << Room(0, <<1>>), Room(1, <<0, 2>>), Room(2, <<1>>) >>

\* self.rooms[room]: indexed by position
RoomAt(m, room) == m[room + 1]
Labels(m) == {m[i].label : i \in 1..Len(m)}

\* (0..self.rooms.len() + 1).collect(): the too-long placeholder path
Placeholder(m) == [i \in 1..(Len(m) + 1) |-> i - 1]

\* a plausible slip: keep the first path found instead of the shortest
MutShortestOf(paths, i, shortest_path) ==
    LET found == SelectSeq(paths, is_some)
    IN  IF found = <<>> THEN shortest_path ELSE unwrap(found[1])

\* the loop over `paths` of _get_path: keep the first strictly shortest
RECURSIVE ShortestOf(_, _, _)
ShortestOf(paths, i, shortest_path) ==
    IF i > Len(paths) THEN shortest_path
    ELSE IF is_some(paths[i]) /\ Len(unwrap(paths[i])) < Len(shortest_path)
         THEN ShortestOf(paths, i + 1, unwrap(paths[i]))
         ELSE ShortestOf(paths, i + 1, shortest_path)

\* Map::_get_path: depth-first enumeration with a per-path visited set (the
\* start room is not in it); None at a dead end, else Some(shortest so far)
RECURSIVE _get_path(_, _, _, _, _)
RECURSIVE ChildPaths(_, _, _, _, _, _)
ChildPaths(m, adjs, i, target, path, visited) ==
    IF i > Len(adjs) THEN <<>>
    ELSE LET adj == adjs[i]
             here == IF adj \notin visited
                     THEN << _get_path(m, adj, target, Append(path, adj),
                                       visited \cup {adj}) >>
                     ELSE <<>>
         IN  here \o ChildPaths(m, adjs, i + 1, target, path, visited)

_get_path(m, room, target, path, visited) ==
    IF room = target THEN Some(path)
    ELSE LET paths == ChildPaths(m, RoomAt(m, room).connected_rooms, 1,
                                 target, path, visited)
         IN  IF paths = <<>> THEN None
             ELSE Some(ShortestOf(paths, 1, Placeholder(m)))

\* Map::get_path: the path reversed, so that Vec::pop yields the next hop
get_path(m, from, to) ==
    reverse(unwrap(_get_path(m, from, to, <<>>, {})))

\* Breadth-first-search oracle: the number of hops of a shortest walk along
\* connected_rooms from `from` to `to`, -1 when there is none
RECURSIVE BfsLevel(_, _, _, _, _)
BfsLevel(m, frontier, seen, to, d) ==
    IF to \in frontier THEN d
    ELSE IF frontier = {} THEN -1
    ELSE LET next == {b \in Labels(m) :
                        \E a \in frontier :
                            b \in Elems(RoomAt(m, a).connected_rooms)}
         IN  BfsLevel(m, next \ (seen \cup frontier), seen \cup frontier, to, d + 1)

BfsDistance(m, from, to) == BfsLevel(m, {from}, {}, to, 0)

\* ---------------------------------------------------------------- ghost.rs

\* Ghost::new
GhostNew == [current_room |-> 0, ghost_room |-> 7, path_to_target |-> None]

\* the ghost of the movement scenario on MapLinear: home 2, starting room 0
GhostLinear == [current_room |-> 0, ghost_room |-> 2, path_to_target |-> None]

\* Ghost::has_evidence_type and GhostType::has_evidence_type: a stub
has_evidence_type(evidence) == TRUE

\* the other_rooms vector of Ghost::next_target
other_rooms(g, m) ==
    LET kept == SelectSeq(m, LAMBDA r : r.label # g.current_room)
    IN  [i \in 1..Len(kept) |-> kept[i].label]

\* the values gen_range(0..other_rooms.len()) can yield; no draw away from home
TargetDraws(g, m) ==
    IF g.current_room = g.ghost_room
    THEN 0..(Len(other_rooms(g, m)) - 1)
    ELSE {0}

\* a plausible slip: a random other room is drawn wherever the ghost is
MutNextTarget(g, m, selected_ix) == other_rooms(g, m)[selected_ix + 1]

\* Ghost::next_target, selected_ix the random index drawn at home
next_target(g, m, selected_ix) ==
    IF g.current_room = g.ghost_room
    THEN other_rooms(g, m)[selected_ix + 1]
    ELSE g.ghost_room

\* a plausible slip: the path is consumed from its front, where the target is
MutMoveRoomFront(g, m, selected_ix) ==
    IF ~is_some(g.path_to_target)
    THEN [g EXCEPT !.path_to_target =
              Some(get_path(m, g.current_room, next_target(g, m, selected_ix)))]
    ELSE LET path == unwrap(g.path_to_target)
             rest == SubSeq(path, 2, Len(path))
         IN  [g EXCEPT !.current_room = path[1],
                       !.path_to_target = IF rest = <<>> THEN None ELSE Some(rest)]

\* a plausible slip: no is_empty test after the pop, an emptied path is kept
MutMoveRoomKeepEmpty(g, m, selected_ix) ==
    IF ~is_some(g.path_to_target)
    THEN [g EXCEPT !.path_to_target =
              Some(get_path(m, g.current_room, next_target(g, m, selected_ix)))]
    ELSE LET path == unwrap(g.path_to_target)
             rest == SubSeq(path, 1, Len(path) - 1)
         IN  IF path = <<>> THEN g
             ELSE [g EXCEPT !.current_room = path[Len(path)],
                            !.path_to_target = Some(rest)]

\* a plausible slip: plan the path and take its first hop in the same call
MutMoveRoom(g, m, selected_ix) ==
    LET path == IF is_some(g.path_to_target)
                THEN unwrap(g.path_to_target)
                ELSE get_path(m, g.current_room, next_target(g, m, selected_ix))
        rest == SubSeq(path, 1, Len(path) - 1)
    IN  [g EXCEPT !.current_room = path[Len(path)],
                  !.path_to_target = IF rest = <<>> THEN None ELSE Some(rest)]

\* Ghost::move_room: with no pending path, plan one and stay in place; with a
\* pending path, pop its last element (the next hop) and move there
move_room(g, m, selected_ix) ==
    IF ~is_some(g.path_to_target)
    THEN [g EXCEPT !.path_to_target =
              Some(get_path(m, g.current_room, next_target(g, m, selected_ix)))]
    ELSE LET path == unwrap(g.path_to_target)
             rest == SubSeq(path, 1, Len(path) - 1)
         IN  [g EXCEPT !.current_room = path[Len(path)],
                       !.path_to_target = IF rest = <<>> THEN None ELSE Some(rest)]

\* ---------------------------------------------------------------- sim.rs

\* an f64 as a fixed-point integer: whole units plus hundred-thousandths
Fx(whole, frac) == whole * 100000 + frac

\* i32 division, which truncates toward zero (b > 0)
TruncDiv(a, b) == IF a >= 0 THEN a \div b ELSE -((-a) \div b)

\* SimOptions::new
ghost_move_interval == from_secs(10)
event_pulse_interval == from_secs(10)
ghost_orbs_duration == from_secs(20)
ghost_orbs_frequency == 100
temperature_variability == 5
thermometer_update_interval == from_secs(2)
ghost_interaction_frequency == 125
emf_blast_duration == from_secs(3)
sanity_drain_rate == Fx(0, 5000)

\* the chance of utils::roll(0.5) in Simulation::move_ghost
stay_chance == 50

\* the values gen_range(4..10) can yield in SimFlags::new
MinsToMinTempDraws == 4..9

\* SimFlags::new, mins_to_min_temp the random draw
SimFlagsNew(mins_to_min_temp) ==
    LET ambient_temp == 50
        ghost_room_min_temp == IF has_evidence_type("Freezing") THEN 28 ELSE 35
    IN  [last_ghost_move |-> from_secs(0),
         last_event_pulse |-> from_secs(0),
         emf_level |-> 0,
         ambient_temp |-> ambient_temp,
         ghost_room_min_temp |-> ghost_room_min_temp,
         delta_temp |-> TruncDiv(ghost_room_min_temp - ambient_temp, mins_to_min_temp),
         orbs_visible |-> FALSE,
         book_location |-> None,
         ghost_writing_visible |-> FALSE,
         is_hunting |-> FALSE]

\* What the last update call did, kept beside the Simulation for the
\* properties to read: the bool it returned, whether it ran move_ghost and
\* event_pulse, the entries check_triggers fired (with the clock they fired
\* at), and for each blast_emf call the intensity and the scheduler before
\* and after it.
NoObs ==
    [changed |-> FALSE, move_ran |-> FALSE, pulse_ran |-> FALSE,
     fired |-> <<>>, blasts |-> <<>>]

\* an entry of event_triggers: (Duration, EventTrigger), and an identity `id`
\* that the code does not have, given in order of insertion
Entry(time, trigger, id) == [time |-> time, trigger |-> trigger, id |-> id]

\* a plausible slip: the constructor does not schedule the first refresh
MutSimulationWith(m, g, mins_to_min_temp) ==
    [players |-> <<>>,
     started |-> FALSE,
     event_triggers |-> <<>>,
     ghost |-> g,
     map |-> m,
     cur_time |-> from_secs(0),
     flags |-> SimFlagsNew(mins_to_min_temp),
     notify_queue |-> <<>>,
     next_id |-> 1,
     obs |-> NoObs]

\* Simulation::new around a given map and ghost. next_id numbers the scheduler
\* entries and the notifications; obs is described above.
SimulationWith(m, g, mins_to_min_temp) ==
    [players |-> <<>>,
     started |-> FALSE,
     event_triggers |-> << Entry(from_secs(0), "UpdateThermometer", 0) >>,
     ghost |-> g,
     map |-> m,
     cur_time |-> from_secs(0),
     flags |-> SimFlagsNew(mins_to_min_temp),
     notify_queue |-> <<>>,
     next_id |-> 1,
     obs |-> NoObs]

\* self.event_triggers.push((time, trigger))
push_trigger(self, time, trigger) ==
    [self EXCEPT !.event_triggers = Append(@, Entry(time, trigger, self.next_id)),
                 !.next_id = @ + 1]

\* a plausible slip: no floor at zero
MutDrainSanity(p, amt) == [p EXCEPT !.sanity = p.sanity - amt]

\* Player::drain_sanity
drain_sanity(p, amt) ==
    LET new_amt == p.sanity - amt
    IN  [p EXCEPT !.sanity = IF new_amt < 0 THEN 0 ELSE new_amt]

\* a plausible slip: the name is checked before the address, and a taken name
\* is reported but the player is pushed all the same
MutAddPlayer(self, addr, name) ==
    LET player == [name |-> name, addr |-> addr, last_loc |-> None,
                   sanity |-> Fx(100, 0)]
    IN  IF \E i \in 1..Len(self.players) : self.players[i].name = name
        THEN [self |-> [self EXCEPT !.players = Append(@, player)],
              result |-> "Name taken"]
        ELSE IF \E i \in 1..Len(self.players) : self.players[i].addr = addr
        THEN [self |-> self, result |-> "Already connected"]
        ELSE [self |-> [self EXCEPT !.players = Append(@, player)],
              result |-> "Ok"]

\* a plausible slip: only the name is checked, never the address
MutAddPlayerNameOnly(self, addr, name) ==
    IF \E i \in 1..Len(self.players) : self.players[i].name = name
    THEN [self |-> self, result |-> "Name taken"]
    ELSE LET player == [name |-> name, addr |-> addr, last_loc |-> None,
                        sanity |-> Fx(100, 0)]
         IN  [self |-> [self EXCEPT !.players = Append(@, player)],
              result |-> "Ok"]

\* Simulation::add_player: the Simulation after the call and the Result
add_player(self, addr, name) ==
    IF \E i \in 1..Len(self.players) : self.players[i].addr = addr
    THEN [self |-> self, result |-> "Already connected"]
    ELSE IF \E i \in 1..Len(self.players) : self.players[i].name = name
    THEN [self |-> self, result |-> "Name taken"]
    ELSE LET player == [name |-> name, addr |-> addr, last_loc |-> None,
                        sanity |-> Fx(100, 0)]
         IN  [self |-> [self EXCEPT !.players = Append(@, player)],
              result |-> "Ok"]

\* a plausible slip: the first player of the registry, whatever its name
MutUpdatePlayerLoc(self, name, location) ==
    IF self.players = <<>> THEN self
    ELSE [self EXCEPT !.players[1].last_loc = Some(location)]

\* Simulation::update_player_loc: the first player of that name, if any
update_player_loc(self, name, location) ==
    LET found == {i \in 1..Len(self.players) : self.players[i].name = name}
    IN  IF found = {} THEN self
        ELSE LET ix == CHOOSE i \in found : \A j \in found : i <= j
             IN  [self EXCEPT !.players[ix].last_loc = Some(location)]

\* a plausible slip: starting also rewinds the clock, as for a new round
MutStart(self) == [self EXCEPT !.started = TRUE, !.cur_time = from_secs(0)]

\* Simulation::start
start(self) == [self EXCEPT !.started = TRUE]

\* Simulation::notify; the notification carries an identity the code does not have
notify(self, msg) ==
    [self EXCEPT !.notify_queue = Append(@, [msg |-> msg, id |-> self.next_id]),
                 !.next_id = @ + 1]

\* Simulation::clear_notify_queue
clear_notify_queue(self) == [self EXCEPT !.notify_queue = <<>>]

\* the values gen_range(min_amount..=max_amount) can yield
EmfDraws == 2..(IF has_evidence_type("Emf") THEN 5 ELSE 3)

\* a plausible slip: no early return while a blast is in progress
MutBlastEmf(self, min_amount, max_amount, level) ==
    LET blasted == push_trigger([self EXCEPT !.flags.emf_level = level],
                                self.cur_time + emf_blast_duration, "EndEMF")
    IN  [blasted EXCEPT !.obs.blasts =
            Append(@, [emf_before |-> self.flags.emf_level,
                       emf_after |-> blasted.flags.emf_level,
                       entries_before |-> self.event_triggers,
                       entries_after |-> blasted.event_triggers])]

\* Simulation::blast_emf, level the random draw
blast_emf(self, min_amount, max_amount, level) ==
    LET blasted ==
            IF self.flags.emf_level # 0 THEN self
            ELSE push_trigger([self EXCEPT !.flags.emf_level = level],
                              self.cur_time + emf_blast_duration, "EndEMF")
    IN  [blasted EXCEPT !.obs.blasts =
            Append(@, [emf_before |-> self.flags.emf_level,
                       emf_after |-> blasted.flags.emf_level,
                       entries_before |-> self.event_triggers,
                       entries_after |-> blasted.event_triggers])]

\* a plausible slip: the test of `stay` is inverted
MutMoveGhost(self, stay_roll, selected_ix, write_roll) ==
    LET stay == self.ghost.current_room = self.ghost.ghost_room /\ stay_roll
        moved == IF stay
                 THEN [self EXCEPT !.ghost = move_room(@, self.map, selected_ix)]
                 ELSE self
    IN  IF /\ is_some(moved.flags.book_location)
           /\ ~moved.flags.ghost_writing_visible
           /\ moved.ghost.current_room = unwrap(moved.flags.book_location)
           /\ write_roll
        THEN [moved EXCEPT !.flags.ghost_writing_visible = TRUE]
        ELSE moved

\* Simulation::move_ghost: stay_roll is roll(0.5), drawn only at home;
\* write_roll is roll(ghost_interaction_frequency), drawn only in the book room
move_ghost(self, stay_roll, selected_ix, write_roll) ==
    LET stay == self.ghost.current_room = self.ghost.ghost_room /\ stay_roll
        moved == IF ~stay
                 THEN [self EXCEPT !.ghost = move_room(@, self.map, selected_ix)]
                 ELSE self
    IN  IF /\ is_some(moved.flags.book_location)
           /\ ~moved.flags.ghost_writing_visible
           /\ moved.ghost.current_room = unwrap(moved.flags.book_location)
           /\ write_roll
        THEN [moved EXCEPT !.flags.ghost_writing_visible = TRUE]
        ELSE moved

\* InteractionType::generate_interaction draws from this list
InteractionTypes == {"Sound", "LightsFlicker"}

\* InteractionType::interaction_msg
interaction_msg(interaction) ==
    IF interaction = "Sound" THEN "Sound" ELSE "Lights"

\* a plausible slip: the hunt branch that the code has commented out is live
\* and taken: the hunt starts, its end is scheduled 30 s on, nothing else occurs
MutEventPulse(self, cur_time, orbs_roll, interaction, level) ==
    push_trigger([self EXCEPT !.flags.is_hunting = TRUE],
                 self.cur_time + from_secs(30), "EndHunt")

\* Simulation::event_pulse: orbs_roll is roll(ghost_orbs_frequency),
\* interaction the kind drawn, level the intensity blast_emf draws
event_pulse(self, cur_time, orbs_roll, interaction, level) ==
    LET orbs == IF ~self.flags.orbs_visible /\ orbs_roll
                THEN push_trigger([self EXCEPT !.flags.orbs_visible = TRUE],
                                  cur_time + ghost_orbs_duration, "RemoveGhostOrbs")
                ELSE self
        sanity_loss(p) == IF p.last_loc = Some(orbs.ghost.current_room)
                          THEN Fx(15, 0) ELSE Fx(5, 0)
        drained == [orbs EXCEPT !.players =
                       [i \in 1..Len(@) |-> drain_sanity(@[i], sanity_loss(@[i]))]]
        min_emf == 2
        max_emf == IF has_evidence_type("Emf") THEN 5 ELSE 3
        blasted == blast_emf(drained, min_emf, max_emf, level)
    IN  notify(blasted, interaction_msg(interaction))

\* a plausible slip: an entry whose fire-time equals the clock is due too
MutIsDue(entry, cur_time) == entry.time <= cur_time

\* the partition predicate of check_triggers
is_due(entry, cur_time) == entry.time < cur_time

\* a plausible slip: the orb end does not clear the flag
MutFireKeepOrbs(self, entry) ==
    LET noted == [self EXCEPT !.obs.fired =
                     Append(@, [entry |-> entry, at |-> self.cur_time])]
    IN  CASE entry.trigger = "RemoveGhostOrbs" -> noted
          [] entry.trigger = "UpdateThermometer" ->
                push_trigger(noted,
                             noted.cur_time + thermometer_update_interval,
                             "UpdateThermometer")
          [] entry.trigger = "EndEMF" ->
                [noted EXCEPT !.flags.emf_level = 0]
          [] entry.trigger = "EndHunt" ->
                [noted EXCEPT !.flags.is_hunting = FALSE]

\* a plausible slip: the thermometer entry is not scheduled again
MutFire(self, entry) ==
    LET noted == [self EXCEPT !.obs.fired =
                     Append(@, [entry |-> entry, at |-> self.cur_time])]
    IN  CASE entry.trigger = "RemoveGhostOrbs" ->
                [noted EXCEPT !.flags.orbs_visible = FALSE]
          [] entry.trigger = "UpdateThermometer" -> noted
          [] entry.trigger = "EndEMF" ->
                [noted EXCEPT !.flags.emf_level = 0]
          [] entry.trigger = "EndHunt" ->
                [noted EXCEPT !.flags.is_hunting = FALSE]

\* one turn of the loop of check_triggers: the effect of a fired entry
fire(self, entry) ==
    LET noted == [self EXCEPT !.obs.fired =
                     Append(@, [entry |-> entry, at |-> self.cur_time])]
    IN  CASE entry.trigger = "RemoveGhostOrbs" ->
                [noted EXCEPT !.flags.orbs_visible = FALSE]
          [] entry.trigger = "UpdateThermometer" ->
                push_trigger(noted,
                             noted.cur_time + thermometer_update_interval,
                             "UpdateThermometer")
          [] entry.trigger = "EndEMF" ->
                [noted EXCEPT !.flags.emf_level = 0]
          [] entry.trigger = "EndHunt" ->
                [noted EXCEPT !.flags.is_hunting = FALSE]

RECURSIVE FireAll(_, _, _)
FireAll(self, triggered, i) ==
    IF i > Len(triggered) THEN self
    ELSE FireAll(fire(self, triggered[i]), triggered, i + 1)

\* a plausible slip: the due entries are taken from the end of the vector
MutCheckTriggers(self) ==
    LET triggered == SelectSeq(self.event_triggers,
                               LAMBDA e : is_due(e, self.cur_time))
        remaining == SelectSeq(self.event_triggers,
                               LAMBDA e : ~is_due(e, self.cur_time))
    IN  [self |-> FireAll([self EXCEPT !.event_triggers = remaining],
                          reverse(triggered), 1),
         changed |-> triggered # <<>>]

\* Simulation::check_triggers: the Simulation after the call and `changed`
check_triggers(self) ==
    LET triggered == SelectSeq(self.event_triggers,
                               LAMBDA e : is_due(e, self.cur_time))
        remaining == SelectSeq(self.event_triggers,
                               LAMBDA e : ~is_due(e, self.cur_time))
    IN  [self |-> FireAll([self EXCEPT !.event_triggers = remaining], triggered, 1),
         changed |-> triggered # <<>>]

\* a plausible slip: the result of check_triggers is dropped
MutUpdateChanged(triggers_changed, changed) == changed

\* `self.check_triggers() || changed`, the value update returns
update_changed(triggers_changed, changed) == triggers_changed \/ changed

\* a plausible slip: the movement step also runs at exactly the interval
MutMoveDue(self, dt) ==
    (self.cur_time + dt) - self.flags.last_ghost_move >= ghost_move_interval

\* whether update(dt) will run move_ghost, and event_pulse
move_due(self, dt) ==
    (self.cur_time + dt) - self.flags.last_ghost_move > ghost_move_interval
pulse_due(self, dt) ==
    (self.cur_time + dt) - self.flags.last_event_pulse > event_pulse_interval

\* Simulation::update: the Simulation after the call and the bool returned.
\* rnd holds the random draws the call makes.
update(self, dt, rnd) ==
    LET advanced == [self EXCEPT !.cur_time = @ + dt, !.obs = NoObs]
        \* sanity_drain_rate * seconds, with the division by 1000 done first
        \* (it is exact) to stay within 32-bit integers
        sanity_drain == (sanity_drain_rate \div 1000) * dt
        drained == [advanced EXCEPT !.players =
                       [i \in 1..Len(@) |-> drain_sanity(@[i], sanity_drain)]]
        moved == IF move_due(self, dt)
                 THEN [move_ghost([drained EXCEPT !.flags.last_ghost_move =
                                                      drained.cur_time],
                                  rnd.stay, rnd.selected_ix, rnd.write)
                         EXCEPT !.obs.move_ran = TRUE]
                 ELSE drained
        pulsed == IF pulse_due(self, dt)
                  THEN [event_pulse(moved, moved.cur_time, rnd.orbs,
                                    rnd.interaction, rnd.level)
                          EXCEPT !.flags.last_event_pulse = moved.cur_time,
                                 !.obs.pulse_ran = TRUE]
                  ELSE moved
        changed == move_due(self, dt) \/ pulse_due(self, dt)
        checked == check_triggers(pulsed)
        result == update_changed(checked.changed, changed)
    IN  [self |-> [checked.self EXCEPT !.obs.changed = result],
         changed |-> result]

\* the draws update(dt) can make from this state; a draw the call does not
\* make is held at one value
UpdateDraws(self, dt) ==
    LET at_home == self.ghost.current_room = self.ghost.ghost_room
        m == move_due(self, dt)
        p == pulse_due(self, dt)
    IN  [stay : IF m /\ at_home THEN roll(stay_chance) ELSE {FALSE},
         selected_ix : IF m /\ ~is_some(self.ghost.path_to_target)
                       THEN TargetDraws(self.ghost, self.map) ELSE {0},
         write : IF m /\ is_some(self.flags.book_location)
                 THEN roll(ghost_interaction_frequency) ELSE {FALSE},
         orbs : IF p /\ ~self.flags.orbs_visible
                THEN roll(ghost_orbs_frequency) ELSE {FALSE},
         interaction : IF p THEN InteractionTypes ELSE {"Sound"},
         level : IF p /\ self.flags.emf_level = 0
                 THEN EmfDraws ELSE {2}]

\* A count of seconds as wide as the u64 of Duration::as_secs: `giga` units of
\* 10^9 s and `rest` below 10^9 s, so that clocks past the integers of the
\* model (and past i32) can be written.
Giga == 1000000000
WideSecs(giga, rest) == [giga |-> giga, rest |-> rest]

\* Duration::as_secs of a clock of the model (milliseconds)
as_secs(cur_time) == WideSecs(0, cur_time \div 1000)

i32_MAX == 2147483647
i32_MIN == -2147483647 - 1

\* `mins.try_into()` of `mins = secs / 5` (u64 to i32): Some(mins) when mins
\* is at most i32::MAX, None beyond. 10^9 / 5 = 200000000 per unit of `giga`.
mins_try_into_i32(secs) ==
    LET rest5 == secs.rest \div 5
    IN  IF \/ secs.giga < 10
           \/ secs.giga = 10 /\ rest5 <= i32_MAX - 2000000000
        THEN Some(secs.giga * 200000000 + rest5)
        ELSE None

\* Option::unwrap_or
unwrap_or(o, default) == IF is_some(o) THEN unwrap(o) ELSE default

\* `a * b` in i32, for b >= 0 and a of 16 bits at most: whether the product
\* leaves i32 and the value two's complement arithmetic wraps it to,
\* computed in 16-bit halves of b so that no step leaves the integers of the
\* model
mul_i32(a, b) ==
    LET bh == b \div 65536
        bl == b % 65536
        lo == a * bl
        hi == a * bh + (lo \div 65536)
        lo16 == lo % 65536
        hi16 == hi % 65536
    IN  [overflow |-> hi < -32768 \/ hi > 32767,
         value |-> IF hi16 >= 32768 THEN (hi16 - 65536) * 65536 + lo16
                   ELSE hi16 * 65536 + lo16]

\* `a + b` in i32, for a >= 0: whether the sum leaves i32 and the value it
\* wraps to
add_i32(a, b) ==
    IF b > i32_MAX - a
    THEN [overflow |-> TRUE, value |-> (b + i32_MIN) + (a + i32_MIN)]
    ELSE [overflow |-> FALSE, value |-> a + b]

\* Simulation::ghost_room_temp at a clock of `secs` whole seconds. An i32
\* overflow panics in a build with overflow checks (the debug profile) and
\* wraps in one without (the release profile): overflow_checks says which.
ghost_room_temp_at(secs, flags, overflow_checks) ==
    LET mins == unwrap_or(mins_try_into_i32(secs), 0)
        product == mul_i32(flags.delta_temp, mins)
        gr_temp == add_i32(flags.ambient_temp, product.value)
    IN  IF overflow_checks /\ (product.overflow \/ gr_temp.overflow)
        THEN [panicked |-> TRUE, temp |-> 0]
        ELSE [panicked |-> FALSE,
              temp |-> IF gr_temp.value > flags.ghost_room_min_temp
                       THEN gr_temp.value ELSE flags.ghost_room_min_temp]

\* Simulation::ghost_room_temp on a Simulation of the model: what either
\* build returns (the clock, in milliseconds, is below 2^31, where `mins`
\* converts and nothing overflows, so the two agree)
ghost_room_temp(self) ==
    LET outcomes == {ghost_room_temp_at(as_secs(self.cur_time), self.flags, c) :
                        c \in BOOLEAN}
    IN  (CHOOSE o \in outcomes : TRUE).temp

\* the values gen_range(-v..v) can yield
NoiseDraws == (-temperature_variability)..(temperature_variability - 1)

\* a plausible slip: the ghost's location and its favorite room swapped
MutGetGameupdate(self, amb_noise, gr_noise) ==
    IF ~self.started
    THEN [variant |-> "Lobby",
          players |-> [i \in 1..Len(self.players) |-> self.players[i].name],
          ghost_location |-> 0, favorite_room |-> 0,
          ghost_orbs_visible |-> FALSE, ambient_temp |-> 0,
          ghost_room_temp |-> 0, emf_level |-> 0,
          notifications |-> <<>>, ghost_writing_visible |-> FALSE]
    ELSE LET amb == self.flags.ambient_temp + amb_noise
             gr == ghost_room_temp(self) + gr_noise
         IN  [variant |-> "Sim",
              players |-> self.players,
              ghost_location |-> self.ghost.ghost_room,
              favorite_room |-> self.ghost.current_room,
              ghost_orbs_visible |-> self.flags.orbs_visible,
              ambient_temp |-> IF amb > 40 THEN amb ELSE 40,
              ghost_room_temp |-> gr,
              emf_level |-> self.flags.emf_level,
              notifications |-> self.notify_queue,
              ghost_writing_visible |-> self.flags.ghost_writing_visible]

\* Simulation::get_gameupdate, the two noises the random draws. The Lobby
\* variant has `players` (names) only; its other fields are fillers here.
get_gameupdate(self, amb_noise, gr_noise) ==
    IF ~self.started
    THEN [variant |-> "Lobby",
          players |-> [i \in 1..Len(self.players) |-> self.players[i].name],
          ghost_location |-> 0, favorite_room |-> 0,
          ghost_orbs_visible |-> FALSE, ambient_temp |-> 0,
          ghost_room_temp |-> 0, emf_level |-> 0,
          notifications |-> <<>>, ghost_writing_visible |-> FALSE]
    ELSE LET amb == self.flags.ambient_temp + amb_noise
             gr == ghost_room_temp(self) + gr_noise
         IN  [variant |-> "Sim",
              players |-> self.players,
              ghost_location |-> self.ghost.current_room,
              favorite_room |-> self.ghost.ghost_room,
              ghost_orbs_visible |-> self.flags.orbs_visible,
              ambient_temp |-> IF amb > 40 THEN amb ELSE 40,
              ghost_room_temp |->
                  IF has_evidence_type("Freezing") THEN gr
                  ELSE IF gr > self.flags.ghost_room_min_temp
                       THEN gr ELSE self.flags.ghost_room_min_temp,
              emf_level |-> self.flags.emf_level,
              notifications |-> self.notify_queue,
              ghost_writing_visible |-> self.flags.ghost_writing_visible]

\* ---------------------------------------------------------------- server.rs

\* run_simulation: fps, and dt = Duration::from_millis(1000 / fps)
fps == 30
TickDt == from_millis(1000 \div fps)

\* the notification identities of a serialized GameUpdate
NotificationIds(msg) ==
    [i \in 1..Len(msg.notifications) |-> msg.notifications[i].id]

\* The server's state in the model: `sim`, the addresses of `peer_map`, and
\* two records of what was sent: `delivered[a]` lists, in order, the
\* notification identities of the messages pushed on peer a's channel, and
\* `broadcast_ids` is the set of identities some broadcast has carried.

\* ServerState::add_peer
add_peer(st, addr) == [st EXCEPT !.peer_map = @ \cup {addr}]

\* ServerState::remove_peer (the address is in the map: handle_connection adds
\* it before it reads, and removes it once, when the connection ends)
remove_peer(st, addr) == [st EXCEPT !.peer_map = @ \ {addr}]

\* ServerState::get_gamestate
get_gamestate(st, amb_noise, gr_noise) ==
    get_gameupdate(st.sim, amb_noise, gr_noise)

\* ServerState::send_gamestate: the snapshot goes to one peer, if connected
send_gamestate(st, addr, amb_noise, gr_noise) ==
    LET msg == get_gamestate(st, amb_noise, gr_noise)
    IN  IF addr \in st.peer_map
        THEN [st EXCEPT !.delivered[addr] = @ \o NotificationIds(msg)]
        ELSE st

\* ServerState::broadcast
broadcast(st, msg) ==
    [st EXCEPT !.delivered =
        [a \in DOMAIN @ |-> IF a \in st.peer_map
                            THEN @[a] \o NotificationIds(msg) ELSE @[a]],
               !.broadcast_ids = @ \cup Elems(NotificationIds(msg))]

\* a plausible slip: the queue is cleared before the snapshot is taken
MutBroadcastGamestate(st, amb_noise, gr_noise) ==
    LET cleared == [st EXCEPT !.sim = clear_notify_queue(@)]
    IN  broadcast(cleared, get_gamestate(cleared, amb_noise, gr_noise))

\* ServerState::broadcast_gamestate: snapshot, broadcast, clear_notify_queue
broadcast_gamestate(st, amb_noise, gr_noise) ==
    LET sent == broadcast(st, get_gamestate(st, amb_noise, gr_noise))
    IN  [sent EXCEPT !.sim = clear_notify_queue(@)]

\* ServerState::register_player
register_player(st, addr, name) ==
    LET r == add_player(st.sim, addr, name)
        added == [st EXCEPT !.sim = r.self]
    IN  [st |-> IF r.result = "Ok" THEN broadcast_gamestate(added, 0, 0) ELSE added,
         result |-> r.result]

\* ------------------------------------------------------------------ state

\* Inputs of the model
Addrs == {"a1", "a2"}
Names == {"n1", "n2"}
LocRooms == {0}
\* the dt of update: the thermometer interval, and one long enough to drain a
\* full sanity and to pass every interval and every scheduled time
DtSet == {from_secs(2), from_secs(2000)}
\* the number of update calls followed
MaxTicks == 2

VARIABLES
    sim,          \* the Simulation (ServerState.sim)
    peer_map,     \* the addresses of ServerState.peer_map
    pc,           \* where run_simulation stands: "check", "update", "broadcast"
    delivered,    \* per address, the notification identities sent to it
    broadcast_ids,\* the notification identities some broadcast carried
    ret,          \* the Result of the last add_player call ("" before any)
    ticks,        \* the number of update calls so far
    fired,        \* every entry check_triggers has fired, with the clock then
    ghost_trace,  \* the ghost's room after each call of move_ghost
    query         \* a get_path call: from, to, and the path once computed

vars == <<sim, peer_map, pc, delivered, broadcast_ids, ret, ticks, fired,
          ghost_trace, query>>

NoQuery == [from |-> 0, to |-> 0, path |-> None]

InitWith(m, g, minsDraws) ==
    /\ \E mins \in minsDraws : sim = SimulationWith(m, g, mins)
    /\ peer_map = {}
    /\ pc = "check"
    /\ delivered = [a \in Addrs |-> <<>>]
    /\ broadcast_ids = {}
    /\ ret = ""
    /\ ticks = 0
    /\ fired = <<>>
    /\ ghost_trace = <<>>

ServerVars == <<peer_map, pc, delivered, broadcast_ids>>
HistVars == <<ticks, fired, ghost_trace>>

\* ------------------------------------------------- the Simulation's interface

\* add_player, at any time: before or after the start
AddPlayer(addr, name) ==
    LET r == add_player(sim, addr, name)
    IN  /\ sim' = r.self
        /\ ret' = r.result
        /\ UNCHANGED <<ServerVars, HistVars, query>>

UpdatePlayerLoc(name, location) ==
    /\ sim' = update_player_loc(sim, name, location)
    /\ UNCHANGED <<ret, ServerVars, HistVars, query>>

Start ==
    /\ sim' = start(sim)
    /\ UNCHANGED <<ret, ServerVars, HistVars, query>>

ClearNotifyQueue ==
    /\ sim' = clear_notify_queue(sim)
    /\ UNCHANGED <<ret, ServerVars, HistVars, query>>

\* what an update call leaves in the history variables
Recorded(r) ==
    /\ ticks' = ticks + 1
    /\ fired' = fired \o r.self.obs.fired
    /\ ghost_trace' = IF r.self.obs.move_ran
                      THEN Append(ghost_trace, r.self.ghost.current_room)
                      ELSE ghost_trace

\* update is called by run_simulation only, and only once started; at most
\* `max` calls are followed
UpdateWithin(dt, max) ==
    /\ sim.started
    /\ ticks < max
    /\ \E rnd \in UpdateDraws(sim, dt) :
          Recorded(update(sim, dt, rnd)) /\ sim' = update(sim, dt, rnd).self
    /\ UNCHANGED <<ret, ServerVars, query>>

Update(dt) == UpdateWithin(dt, MaxTicks)

\* the Simulation with any of the draws SimFlags::new can take
Init == InitWith(MapNew, GhostNew, MinsToMinTempDraws) /\ query = NoQuery

Next ==
    \/ \E addr \in Addrs, name \in Names : AddPlayer(addr, name)
    \/ \E name \in Names, location \in LocRooms : UpdatePlayerLoc(name, location)
    \/ Start
    \/ \E dt \in DtSet : Update(dt)
    \/ ClearNotifyQueue

Spec == Init /\ [][Next]_vars

\* ------------------------------------------- the movement scenario, 0 - 1 - 2

\* the dt of update in this specification: the thermometer interval and just
\* over the movement interval
LinearDts == {from_secs(2), from_secs(10) + 1}
\* the number of update calls followed: the two-room walk and the tick after
MaxLinearTicks == 3

InitLinear ==
    InitWith(MapLinear, GhostLinear, MinsToMinTempDraws) /\ query = NoQuery

NextLinear ==
    \/ Start
    \/ \E dt \in LinearDts : UpdateWithin(dt, MaxLinearTicks)

SpecLinear == InitLinear /\ [][NextLinear]_vars

\* ------------------------------ the registry, around the movement interval

\* the dt of update in this specification: the movement (and pulse) interval
\* exactly, and just over it
RegistryDts == {from_secs(10), from_secs(10) + 1}

NextRegistry ==
    \/ \E addr \in Addrs, name \in Names : AddPlayer(addr, name)
    \/ \E name \in Names, location \in LocRooms : UpdatePlayerLoc(name, location)
    \/ Start
    \/ \E dt \in RegistryDts : Update(dt)

SpecRegistry == Init /\ [][NextRegistry]_vars

\* --------------------------------------------- the ghost's movement ticks

\* the dt of update in this specification: just over the movement interval,
\* so that every call of update runs the movement step (and the event pulse)
GhostDts == {from_secs(10) + 1}
\* the number of update calls followed: the walk home from room 0 (a planning
\* tick and three hops), the planning tick at home and the first hop out
MaxGhostTicks == 6

NextGhost ==
    \/ Start
    \/ \E dt \in GhostDts : UpdateWithin(dt, MaxGhostTicks)

SpecGhost == Init /\ [][NextGhost]_vars

\* ------------------------- the room temperature at two clocks, either build

\* the clocks of this specification, in whole seconds: the start, five steps
\* of the temperature and a minute; the last clock at which delta_temp * mins
\* stays within i32 at the fastest cooling rate (-5) and one 55 s on; the first
\* at which it leaves i32 at the slowest (-2); the last at which `mins` is
\* within i32 and the first at which it is not
TempClocks ==
    {WideSecs(0, 0), WideSecs(0, 25), WideSecs(0, 60),
     WideSecs(2, 147483645), WideSecs(2, 147483700),
     WideSecs(5, 368709125),
     WideSecs(10, 737418239), WideSecs(10, 737418240)}

\* the order of two clocks
secs_le(a, b) == a.giga < b.giga \/ (a.giga = b.giga /\ a.rest <= b.rest)

\* a Simulation with any of the draws of SimFlags::new, the clock before and
\* after some update calls, and the build
InitTempCall ==
    /\ InitWith(MapNew, GhostNew, MinsToMinTempDraws)
    /\ \E before \in TempClocks, after \in TempClocks, c \in BOOLEAN :
          /\ secs_le(before, after)
          /\ query = [before |-> before, after |-> after,
                      overflow_checks |-> c, temps |-> None]

\* ghost_room_temp called at the clock before and at the clock after
GhostRoomTemp ==
    /\ ~is_some(query.temps)
    /\ query' = [query EXCEPT !.temps =
                    Some([before |-> ghost_room_temp_at(query.before, sim.flags,
                                                        query.overflow_checks),
                          after |-> ghost_room_temp_at(query.after, sim.flags,
                                                       query.overflow_checks)])]
    /\ UNCHANGED <<sim, ret, ServerVars, HistVars>>

NextTempCall == GhostRoomTemp

SpecTempCall == InitTempCall /\ [][NextTempCall]_vars

\* ------------------------------------------------------- the pathfinder alone

\* every ordered pair of rooms of the reference topology and of the linear one
InitPath ==
    \E m \in {MapNew, MapLinear} :
        /\ InitWith(m, GhostNew, MinsToMinTempDraws)
        /\ \E from \in Labels(m), to \in Labels(m) :
              query = [from |-> from, to |-> to, path |-> None]

GetPath ==
    /\ ~is_some(query.path)
    /\ query' = [query EXCEPT !.path = Some(get_path(sim.map, query.from, query.to))]
    /\ UNCHANGED <<sim, ret, ServerVars, HistVars>>

NextPath == GetPath

SpecPath == InitPath /\ [][NextPath]_vars

\* ------------------------------------------------ the server around the core

\* Inputs of the server model
SrvAddrs == {"a1", "a2"}
SrvNames == {"n1"}
SrvRooms == {0}
\* run_simulation ticks until just past the first event pulse (tick 304)
MaxServerTicks == 305
\* an admin peer asks again only while it has received fewer notifications
MaxDelivered == 2
\* JoinLobby messages are followed until run_simulation has ticked this often
MaxJoinTicks == 1

ServerState == [sim |-> sim, peer_map |-> peer_map, delivered |-> delivered,
                broadcast_ids |-> broadcast_ids]

SetServerState(st) ==
    /\ sim' = st.sim
    /\ peer_map' = st.peer_map
    /\ delivered' = st.delivered
    /\ broadcast_ids' = st.broadcast_ids

\* handle_connection up to add_peer
Connect(addr) ==
    /\ addr \notin peer_map
    /\ SetServerState(add_peer(ServerState, addr))
    /\ UNCHANGED <<pc, ret, HistVars, query>>

\* handle_connection once the connection has ended
Disconnect(addr) ==
    /\ addr \in peer_map
    /\ SetServerState(remove_peer(ServerState, addr))
    /\ UNCHANGED <<pc, ret, HistVars, query>>

\* handle_message, PhasmoMessage::JoinLobby
HandleJoinLobby(addr, name) ==
    /\ addr \in peer_map
    /\ ticks <= MaxJoinTicks
    /\ LET r == register_player(ServerState, addr, name)
       IN  SetServerState(r.st) /\ ret' = r.result
    /\ UNCHANGED <<pc, HistVars, query>>

\* handle_message, PhasmoMessage::StartSim
HandleStartSim(addr) ==
    /\ addr \in peer_map
    /\ SetServerState(
          broadcast_gamestate([ServerState EXCEPT !.sim = start(@)], 0, 0))
    /\ UNCHANGED <<pc, ret, HistVars, query>>

\* handle_message, PhasmoMessage::LocationUpdate
HandleLocationUpdate(addr, name, location) ==
    /\ addr \in peer_map
    /\ SetServerState(
          broadcast_gamestate(
              [ServerState EXCEPT !.sim = update_player_loc(@, name, location)],
              0, 0))
    /\ UNCHANGED <<pc, ret, HistVars, query>>

\* handle_message, PhasmoMessage::ConnectAsAdmin
HandleConnectAsAdmin(addr) ==
    /\ addr \in peer_map
    /\ Len(delivered[addr]) < MaxDelivered
    /\ SetServerState(send_gamestate(ServerState, addr, 0, 0))
    /\ UNCHANGED <<pc, ret, HistVars, query>>

\* run_simulation: `if state.lock().unwrap().is_started()`; at most `max`
\* passes of the loop are followed
TickCheckWithin(max) ==
    /\ pc = "check"
    /\ sim.started
    /\ ticks < max
    /\ pc' = "update"
    /\ UNCHANGED <<sim, peer_map, delivered, broadcast_ids, ret, HistVars, query>>

TickCheck == TickCheckWithin(MaxServerTicks)

\* run_simulation: `let changed = state.lock().unwrap().update_sim(dt)`
TickUpdate ==
    /\ pc = "update"
    /\ \E rnd \in UpdateDraws(sim, TickDt) :
          /\ Recorded(update(sim, TickDt, rnd))
          /\ sim' = update(sim, TickDt, rnd).self
          /\ pc' = IF update(sim, TickDt, rnd).changed THEN "broadcast" ELSE "check"
    /\ UNCHANGED <<peer_map, delivered, broadcast_ids, ret, query>>

\* run_simulation: `if changed { state.lock().unwrap().broadcast_gamestate() }`
TickBroadcast ==
    /\ pc = "broadcast"
    /\ SetServerState(broadcast_gamestate(ServerState, 0, 0))
    /\ pc' = "check"
    /\ UNCHANGED <<ret, HistVars, query>>

NextServer ==
    \/ \E addr \in SrvAddrs : Connect(addr)
    \/ \E addr \in SrvAddrs : Disconnect(addr)
    \/ \E addr \in SrvAddrs, name \in SrvNames : HandleJoinLobby(addr, name)
    \/ \E addr \in SrvAddrs : HandleStartSim(addr)
    \/ \E addr \in SrvAddrs, name \in SrvNames, location \in SrvRooms :
          HandleLocationUpdate(addr, name, location)
    \/ \E addr \in SrvAddrs : HandleConnectAsAdmin(addr)
    \/ TickCheck
    \/ TickUpdate
    \/ TickBroadcast

SpecServer == Init /\ [][NextServer]_vars

\* ------------------------------------- the tick driver, under fairness

\* the peer of this specification
FairAddrs == {"a1"}
\* the passes of the loop between two movement steps: the first pass whose
\* elapsed time is past the movement interval
PassesPerMove == (ghost_move_interval \div TickDt) + 1
\* the passes of the loop followed, six movement steps: the ghost's walk home
\* from room 0 (a planning step and three hops), and at home a planning step
\* and the first hop of the next excursion
MaxFairTicks == 1824

\* a peer connects and starts the simulation, and run_simulation ticks
NextGhostFair ==
    \/ \E addr \in FairAddrs : Connect(addr)
    \/ \E addr \in FairAddrs : HandleStartSim(addr)
    \/ TickCheckWithin(MaxFairTicks)
    \/ TickUpdate
    \/ TickBroadcast

\* a step of the loop of run_simulation: each of its three sections moves on
\* to the next one
LoopStep ==
    \/ pc = "check" /\ sim.started /\ ticks < MaxFairTicks /\ pc' = "update"
    \/ pc = "update" /\ pc' \in {"broadcast", "check"}
    \/ pc = "broadcast" /\ pc' = "check"

\* run_simulation loops for ever: the section it has come to is run
SpecGhostFair == Init /\ [][NextGhostFair]_vars /\ WF_pc(LoopStep)

\* ================================================================ properties

HasAddr(players, addr) == \E i \in 1..Len(players) : players[i].addr = addr
HasName(players, name) == \E i \in 1..Len(players) : players[i].name = name

\* the pending entries of a kind, and the fired records of a kind
Pending(kind) ==
    SelectSeq(sim.event_triggers, LAMBDA e : e.trigger = kind)
Fired(kind) ==
    SelectSeq(fired, LAMBDA f : f.entry.trigger = kind)
FiredNow(kind) ==
    SelectSeq(sim.obs.fired, LAMBDA f : f.entry.trigger = kind)

\* C1: add_player on a registry that already holds the identity or the name
\* returns an error -- "Already connected" when the identity is there (checked
\* first), else "Name taken" -- and leaves the registry as it was: the same
\* players in the same order with the same sanity and last-known rooms.
C1_RejectedJoinUnchanged ==
    [][\A addr \in Addrs, name \in Names :
          AddPlayer(addr, name) =>
              /\ HasAddr(sim.players, addr) =>
                    ret' = "Already connected" /\ sim'.players = sim.players
              /\ ~HasAddr(sim.players, addr) /\ HasName(sim.players, name) =>
                    ret' = "Name taken" /\ sim'.players = sim.players
              /\ ret' # "Ok" => sim' = sim]_vars

\* C1 witness: a second join with a taken name from another identity was
\* rejected with "Name taken" and the registry still has one player
C1_Witness ==
    /\ ret = "Name taken"
    /\ Len(sim.players) = 1

\* C2: every player's sanity lies in [0, 100]; it is 100 on join; no operation
\* raises it, removes a player or reorders the registry.
C2_SanityBounded ==
    /\ [](\A i \in 1..Len(sim.players) :
             sim.players[i].sanity >= 0 /\ sim.players[i].sanity <= Fx(100, 0))
    /\ [][/\ Len(sim'.players) >= Len(sim.players)
          /\ \A i \in 1..Len(sim'.players) :
                IF i <= Len(sim.players)
                THEN sim'.players[i].sanity <= sim.players[i].sanity
                ELSE sim'.players[i].sanity = Fx(100, 0)]_vars

\* C2 witness: a tick whose event pulse ran has left a player at the floor,
\* where the pulse penalty could not take it below 0
C2_Witness ==
    /\ sim.obs.pulse_ran
    /\ \E i \in 1..Len(sim.players) : sim.players[i].sanity = 0

\* C3: update returns true exactly when, in that tick, move_ghost ran or
\* event_pulse ran or check_triggers fired at least one entry.
C3_ChangedIff ==
    ticks > 0 =>
        (sim.obs.changed <=>
            (sim.obs.move_ran \/ sim.obs.pulse_ran \/ sim.obs.fired # <<>>))

\* C3 witness: a tick that only drained sanity returned false
C3_Witness ==
    /\ ticks > 0
    /\ ~sim.obs.changed
    /\ \E i \in 1..Len(sim.players) : sim.players[i].sanity < Fx(100, 0)

\* C4: a scheduler entry fires exactly once, in the first tick whose clock
\* after the advance is strictly greater than its fire-time: (a) every firing
\* happened at a clock strictly past the entry's fire-time; (b) after an update
\* no pending entry is due, so none was passed over; (c) no entry fired twice,
\* and no fired entry is still pending.
C4_FiresExactlyOnce ==
    /\ \A i \in 1..Len(fired) : fired[i].entry.time < fired[i].at
    /\ \A i \in 1..Len(sim.event_triggers) :
          sim.event_triggers[i].time >= sim.cur_time
    /\ \A i, j \in 1..Len(fired) : i # j => fired[i].entry.id # fired[j].entry.id
    /\ \A i \in 1..Len(fired), j \in 1..Len(sim.event_triggers) :
          fired[i].entry.id # sim.event_triggers[j].id
    /\ \A i, j \in 1..Len(sim.event_triggers) :
          i # j => sim.event_triggers[i].id # sim.event_triggers[j].id

\* C4 witness: after a tick, an entry whose fire-time equals the clock is
\* still pending, and an earlier entry has fired
C4_Witness ==
    /\ ticks >= 2
    /\ fired # <<>>
    /\ \E i \in 1..Len(sim.event_triggers) :
          sim.event_triggers[i].time = sim.cur_time

\* a walk along connected_rooms from `from` that ends in `to`; `path` is in the
\* order get_path returns it: the last element is the first hop
IsWalk(m, from, to, path) ==
    LET hops == reverse(path)
    IN  /\ \A i \in 1..Len(hops) :
              hops[i] \in Elems(RoomAt(m, IF i = 1 THEN from ELSE hops[i - 1]).connected_rooms)
        /\ (IF hops = <<>> THEN from ELSE hops[Len(hops)]) = to

\* C5: for every ordered pair of rooms, get_path returns a path to `to` whose
\* number of hops is the breadth-first distance on the same topology; the path
\* from a room to itself is empty.
C5_ShortestPath ==
    is_some(query.path) =>
        /\ Len(unwrap(query.path)) = BfsDistance(sim.map, query.from, query.to)
        /\ IsWalk(sim.map, query.from, query.to, unwrap(query.path))
        /\ query.from = query.to => unwrap(query.path) = <<>>

\* C5 witness: a computed path of several hops where the depth-first search
\* has longer routes to choose from (10 to 5 in the reference topology)
C5_Witness ==
    /\ is_some(query.path)
    /\ sim.map = MapNew
    /\ query.from = 10 /\ query.to = 5
    /\ Len(unwrap(query.path)) = 5

\* C6: the topology of Map::new is symmetric.
C6_SymmetricTopology ==
    \A a \in Labels(sim.map), b \in Labels(sim.map) :
        b \in Elems(RoomAt(sim.map, a).connected_rooms) =>
            a \in Elems(RoomAt(sim.map, b).connected_rooms)

\* C7 as stated: on 0 - 1 - 2 with home 2 and start 0, the ghost is in room 1
\* after the first movement tick and in room 2 after the second.
C7_TwoTicks ==
    /\ Len(ghost_trace) >= 1 => ghost_trace[1] = 1
    /\ Len(ghost_trace) >= 2 => ghost_trace[2] = 2

\* C7 amended: the first movement tick only plans the path [1, 2] and leaves
\* the ghost in room 0; the second takes it to room 1 and the third to room 2,
\* so it reaches room 2 after exactly 3 movement ticks.
C7_ThreeTicks ==
    /\ Len(ghost_trace) = 0 =>
          sim.ghost.current_room = 0 /\ sim.ghost.path_to_target = None
    /\ Len(ghost_trace) >= 1 => ghost_trace[1] = 0
    /\ Len(ghost_trace) = 1 => sim.ghost.path_to_target = Some(<<2, 1>>)
    /\ Len(ghost_trace) >= 2 => ghost_trace[2] = 1
    /\ Len(ghost_trace) = 2 => sim.ghost.path_to_target = Some(<<2>>)
    /\ Len(ghost_trace) >= 3 => ghost_trace[3] = 2
    /\ Len(ghost_trace) = 3 =>
          sim.ghost.current_room = 2 /\ sim.ghost.path_to_target = None

\* C7 witness: the third movement tick has brought the ghost home
C7_Witness ==
    /\ ghost_trace = <<0, 1, 2>>
    /\ sim.ghost.current_room = sim.ghost.ghost_room

\* C8: a blast attempted while the intensity is nonzero changes neither the
\* intensity nor the scheduler; the intensity is nonzero exactly while one
\* EMF-blast-end entry is pending, and one firing of it, never two in a tick,
\* resets the intensity to 0.
C8_BlastIdempotent ==
    /\ \A i \in 1..Len(sim.obs.blasts) :
          sim.obs.blasts[i].emf_before # 0 =>
              /\ sim.obs.blasts[i].emf_after = sim.obs.blasts[i].emf_before
              /\ sim.obs.blasts[i].entries_after = sim.obs.blasts[i].entries_before
    /\ Len(Pending("EndEMF")) = (IF sim.flags.emf_level # 0 THEN 1 ELSE 0)
    /\ Len(FiredNow("EndEMF")) <= 1
    /\ Len(FiredNow("EndEMF")) = 1 => sim.flags.emf_level = 0
    /\ \A i \in 1..Len(Fired("EndEMF")) :
          Fired("EndEMF")[i].at > Fired("EndEMF")[i].entry.time

\* C8 witness: a tick attempted a blast while the intensity was nonzero, and
\* the pending EMF-blast-end then fired and reset it
C8_Witness ==
    /\ \E i \in 1..Len(sim.obs.blasts) : sim.obs.blasts[i].emf_before # 0
    /\ Len(FiredNow("EndEMF")) = 1
    /\ sim.flags.emf_level = 0

\* no identity occurs twice in a sequence
NoRepeat(v) == \A i, j \in 1..Len(v) : i # j => v[i] # v[j]

\* C9: each notification reaches any given peer at most once.
C9_AtMostOnce ==
    \A a \in Addrs : NoRepeat(delivered[a])

\* C10 as stated: the number of thermometer-refresh events fired equals the
\* number of refresh intervals the elapsed time spans.
C10_ExactlyM ==
    Len(Fired("UpdateThermometer")) = sim.cur_time \div thermometer_update_interval

\* C10 amended: the refresh re-schedules itself at the firing clock plus the
\* interval, so exactly one refresh entry is pending at all times and a tick
\* fires at most one; with F events fired after N ticks of elapsed time T:
\* F >= 1 once T > 0, F <= N, and (F - 1) * interval < T.
C10_SelfReschedules ==
    LET F == Len(Fired("UpdateThermometer"))
    IN  /\ Len(Pending("UpdateThermometer")) = 1
        /\ Len(FiredNow("UpdateThermometer")) <= 1
        /\ sim.cur_time > 0 => F >= 1
        /\ F <= ticks
        /\ F >= 1 => (F - 1) * thermometer_update_interval < sim.cur_time
        /\ F >= 1 => Pending("UpdateThermometer")[1].time =
                        Fired("UpdateThermometer")[F].at + thermometer_update_interval

\* C10 witness: several refreshes have fired, fewer than the intervals spanned
C10_Witness ==
    /\ Len(Fired("UpdateThermometer")) >= 2
    /\ Len(Fired("UpdateThermometer")) < sim.cur_time \div thermometer_update_interval

\* C11: started is false at creation; start() makes it true; no operation
\* resets it; a start() call on a started Simulation leaves the whole
\* Simulation (clock, ghost, players, scheduler, flags, notifications) as it was.
C11_StartedOnce ==
    /\ ~sim.started
    /\ [][/\ sim.started => sim'.started
          /\ Start => sim'.started
          /\ Start /\ sim.started => sim' = sim]_vars

\* C11 witness: a started Simulation whose clock has advanced, whose scheduler
\* has fired and which holds a player and a notification, so that a further
\* start() has something to leave unchanged
C11_Witness ==
    /\ sim.started
    /\ sim.cur_time > 0
    /\ fired # <<>>
    /\ sim.players # <<>>
    /\ sim.notify_queue # <<>>

\* the names get_gameupdate lists, whatever the noise drawn
LobbyNames(self) == get_gameupdate(self, 0, 0).players

\* C12: get_gameupdate returns the Lobby variant exactly when the Simulation
\* is not started, with the players' names in join order (a join in the lobby
\* appends its name); once started it returns the Sim variant whose ghost location,
\* favorite room, orb visibility, EMF level, writing visibility, player list
\* and notification list are those of the state, whatever noise is drawn
\* (every value of either noise is taken, the two drawn at opposite ends).
C12_GameUpdateReflectsState ==
    /\ [](\A amb_noise \in NoiseDraws :
             LET gr_noise == -amb_noise - 1
                 u == get_gameupdate(sim, amb_noise, gr_noise)
             IN  /\ (u.variant = "Lobby") <=> ~sim.started
                 /\ ~sim.started =>
                       u.players = [i \in 1..Len(sim.players) |-> sim.players[i].name]
                 /\ sim.started =>
                       /\ u.variant = "Sim"
                       /\ u.ghost_location = sim.ghost.current_room
                       /\ u.favorite_room = sim.ghost.ghost_room
                       /\ u.ghost_orbs_visible = sim.flags.orbs_visible
                       /\ u.emf_level = sim.flags.emf_level
                       /\ u.ghost_writing_visible = sim.flags.ghost_writing_visible
                       /\ u.players = sim.players
                       /\ u.notifications = sim.notify_queue)
    /\ [][\A addr \in Addrs, name \in Names :
             ~sim.started /\ AddPlayer(addr, name) /\ ret' = "Ok" =>
                 LobbyNames(sim') = Append(LobbyNames(sim), name)]_vars

\* C12 witness: a started Simulation whose snapshot has something to show: two
\* players, a ghost away from its favorite room, visible orbs, a nonzero EMF
\* level and a pending notification
C12_Witness ==
    /\ sim.started
    /\ Len(sim.players) = 2
    /\ sim.ghost.current_room # sim.ghost.ghost_room
    /\ sim.flags.orbs_visible
    /\ sim.flags.emf_level # 0
    /\ sim.notify_queue # <<>>

\* C13: update_player_loc with an unknown name changes nothing; with a known
\* name it sets that player's last-known room and leaves the other players,
\* that player's name, identity and sanity, and the rest of the Simulation
\* (ghost, clock, scheduler, flags, notifications, started) as they were.
C13_UpdateLocFrame ==
    [][\A name \in Names, location \in LocRooms :
          UpdatePlayerLoc(name, location) =>
              IF ~HasName(sim.players, name)
              THEN sim' = sim
              ELSE /\ Len(sim'.players) = Len(sim.players)
                   /\ \A i \in 1..Len(sim.players) :
                         IF sim.players[i].name = name
                         THEN sim'.players[i] =
                                 [sim.players[i] EXCEPT !.last_loc = Some(location)]
                         ELSE sim'.players[i] = sim.players[i]
                   /\ [sim' EXCEPT !.players = sim.players] = sim]_vars

\* C13 witness: the second player's room is known, the first player's is not,
\* and the clock has run: the update reached one player and left the other
C13_Witness ==
    /\ Len(sim.players) = 2
    /\ sim.players[1].last_loc = None
    /\ sim.players[2].last_loc = Some(0)
    /\ sim.cur_time > 0

\* C14: no two players of the registry share a name, and no two share an
\* identity, whatever add_player, update_player_loc, start and update calls
\* were made.
C14_UniquePlayers ==
    \A i, j \in 1..Len(sim.players) :
        i # j => /\ sim.players[i].name # sim.players[j].name
                 /\ sim.players[i].addr # sim.players[j].addr

\* C14 witness: with the clock running and two players in, one of them joined
\* after the start, a further join was rejected
C14_Witness ==
    /\ sim.started
    /\ Len(sim.players) = 2
    /\ sim.players[1].sanity < sim.players[2].sanity
    /\ ret \in {"Already connected", "Name taken"}

\* C15 as stated: an update call runs the movement step whenever the clock after the
\* advance is at least the movement interval past the last recorded move, the
\* case of exactly the interval included, and records the clock as the new
\* last-move time.
C15_MoveAtInterval ==
    [][/\ ticks' = ticks + 1
       /\ sim'.cur_time - sim.flags.last_ghost_move >= ghost_move_interval
       => /\ sim'.obs.move_ran
          /\ sim'.flags.last_ghost_move = sim'.cur_time]_vars

\* C15 amended: an update call runs the movement step exactly when the clock
\* after the advance is strictly more than the movement interval past the last
\* recorded move, and then records the clock as the new last-move time; in a
\* tick where the elapsed time is exactly the interval the step does not run
\* and the last-move time stays.
C15_MoveStrictlyPast ==
    [][ticks' = ticks + 1 =>
          /\ sim'.obs.move_ran <=>
                sim'.cur_time - sim.flags.last_ghost_move > ghost_move_interval
          /\ sim'.obs.move_ran => sim'.flags.last_ghost_move = sim'.cur_time
          /\ ~sim'.obs.move_ran =>
                /\ sim'.flags.last_ghost_move = sim.flags.last_ghost_move
                /\ sim'.ghost = sim.ghost]_vars

\* C15 witness: after a tick the elapsed time is exactly the interval and the
\* movement step has not run
C15_Witness ==
    /\ ticks >= 1
    /\ ~sim.obs.move_ran
    /\ sim.cur_time - sim.flags.last_ghost_move = ghost_move_interval

\* C16 as stated: the entries fired in one tick are applied in order of
\* fire-time, those of equal fire-time in order of insertion.
C16_TimeOrder ==
    \A i, j \in 1..Len(sim.obs.fired) :
        i < j =>
            \/ sim.obs.fired[i].entry.time < sim.obs.fired[j].entry.time
            \/ /\ sim.obs.fired[i].entry.time = sim.obs.fired[j].entry.time
               /\ sim.obs.fired[i].entry.id < sim.obs.fired[j].entry.id

\* C16 amended: the entries that become due in one tick are applied in the
\* order they were inserted, whatever their fire-times (so entries of equal
\* fire-time are applied in insertion order); the scheduler itself is kept in
\* insertion order.
C16_InsertionOrder ==
    /\ \A i, j \in 1..Len(sim.obs.fired) :
          i < j => sim.obs.fired[i].entry.id < sim.obs.fired[j].entry.id
    /\ \A i, j \in 1..Len(sim.event_triggers) :
          i < j => sim.event_triggers[i].id < sim.event_triggers[j].id

\* C16 witness: one tick fired three entries, the one inserted first having
\* the latest fire-time
C16_Witness ==
    /\ Len(sim.obs.fired) = 3
    /\ sim.obs.fired[1].entry.time > sim.obs.fired[2].entry.time
    /\ sim.obs.fired[2].entry.time > sim.obs.fired[3].entry.time

\* the rooms listed as connected to a room
Adjacent(m, room) == Elems(RoomAt(m, room).connected_rooms)

\* C17: in a movement tick the ghost's room stays the same or changes to a
\* room listed as adjacent to the room it was in: one room at most per tick,
\* never a jump; and the hops still to come are of the same kind: a pending
\* path, taken from its end, is a walk from the ghost's room along listed
\* connections, and a hop takes the path's last element.
C17_OneRoomPerTick ==
    /\ [][/\ sim'.ghost.current_room # sim.ghost.current_room =>
             /\ sim'.obs.move_ran
             /\ sim'.ghost.current_room \in
                    Adjacent(sim.map, sim.ghost.current_room)
             /\ is_some(sim.ghost.path_to_target)
             /\ sim'.ghost.current_room =
                    unwrap(sim.ghost.path_to_target)[Len(unwrap(sim.ghost.path_to_target))]
          /\ sim'.obs.move_ran =>
                Len(ghost_trace') = Len(ghost_trace) + 1]_vars
    /\ [](is_some(sim.ghost.path_to_target) =>
             LET path == unwrap(sim.ghost.path_to_target)
             IN  path # <<>> /\ IsWalk(sim.map, sim.ghost.current_room, path[1], path))

\* C17 witness: the ghost has walked home from room 0 by 2 and 6, has planned
\* a path to the room farthest from home (room 8, six hops away) and has
\* taken its first hop
C17_Witness ==
    /\ ghost_trace = << 0, 2, 6, 7, 7, 6 >>
    /\ is_some(sim.ghost.path_to_target)
    /\ unwrap(sim.ghost.path_to_target)[1] = 8

\* C18: when the ghost has no pending path and a path is computed, the path
\* leads to the home room if the ghost is away from home and to another room
\* if it is at home; the ghost does not move in that tick; the home room
\* never changes.
C18_TargetChoice ==
    [][/\ sim'.ghost.ghost_room = sim.ghost.ghost_room
       /\ ~is_some(sim.ghost.path_to_target) /\ is_some(sim'.ghost.path_to_target) =>
             LET path == unwrap(sim'.ghost.path_to_target)
             IN  /\ path # <<>>
                 /\ sim'.ghost.current_room = sim.ghost.current_room
                 /\ IsWalk(sim.map, sim.ghost.current_room, path[1], path)
                 /\ sim.ghost.current_room # sim.ghost.ghost_room =>
                       path[1] = sim.ghost.ghost_room
                 /\ sim.ghost.current_room = sim.ghost.ghost_room =>
                       path[1] # sim.ghost.ghost_room]_vars

\* C18 witness: at home, the ghost has planned a path to another room
C18_Witness ==
    /\ sim.ghost.current_room = sim.ghost.ghost_room
    /\ is_some(sim.ghost.path_to_target)
    /\ unwrap(sim.ghost.path_to_target)[1] = 11

\* the movement ticks a ghost needs to be home: none at home; away with no
\* path, one to plan and the hops of the path home; with a path pending, its
\* hops, and from a target other than home the return from there
TicksHome(self) ==
    LET g == self.ghost
        home(from) == Len(get_path(self.map, from, g.ghost_room))
    IN  IF g.current_room = g.ghost_room THEN 0
        ELSE IF ~is_some(g.path_to_target) THEN 1 + home(g.current_room)
        ELSE LET path == unwrap(g.path_to_target)
             IN  IF path[1] = g.ghost_room THEN Len(path)
                 ELSE Len(path) + 1 + home(path[1])

\* the ghost after k hops of `path`, planned in the room `from`
Hopped(home, from, path, k) ==
    LET n == Len(path)
    IN  [current_room |-> IF k = 0 THEN from ELSE path[n - k + 1],
         ghost_room |-> home,
         path_to_target |-> IF k = n THEN None ELSE Some(SubSeq(path, 1, n - k))]

\* the ghosts of the excursions: for every room other than home, on the way
\* out to it and on the way home from it, from the planning tick to arrival
ExcursionGhosts(m, home) ==
    LET others == Labels(m) \ {home}
        way(from, to) == LET path == get_path(m, from, to)
                         IN  {Hopped(home, from, path, k) : k \in 0..Len(path)}
    IN  UNION ({way(home, x) : x \in others} \cup {way(x, home) : x \in others})

\* C19: once the simulation is started and run_simulation keeps looping, a
\* ghost that is away from its home room is in its home room again later.
\* (1) A movement step is never overdue: after every call of update the time
\* since the last one is within the movement interval, so one comes within
\* PassesPerMove passes of the loop. (2) The ghost changes in movement steps
\* only, and away from home each brings it one movement tick nearer home.
\* (3) That holds on every excursion, not only on the ones walked within the
\* passes followed: every ghost reached is one of the excursions' ghosts, a
\* movement step takes each of them to another of them whatever is drawn, and
\* away from home it takes it one tick nearer: the stay roll does not delay
\* it. (4) So the ghost gets home: from every state reached in which the
\* passes it needs are among those followed, it does.
C19_ReturnsHome ==
    /\ [](sim.cur_time - sim.flags.last_ghost_move <= ghost_move_interval)
    /\ [][/\ sim'.ghost # sim.ghost => ticks' = ticks + 1 /\ sim'.obs.move_ran
          /\ ticks' = ticks + 1 /\ sim'.obs.move_ran /\ TicksHome(sim) > 0 =>
                TicksHome(sim') = TicksHome(sim) - 1]_vars
    /\ [](ticks = 0 \/ sim.obs.move_ran =>
             sim.ghost \in ExcursionGhosts(sim.map, sim.ghost.ghost_room))
    /\ [](ticks = 0 =>
             LET excursions == ExcursionGhosts(sim.map, sim.ghost.ghost_room)
             IN  \A g \in excursions :
                     \A stay_roll \in roll(stay_chance),
                        selected_ix \in TargetDraws(g, sim.map) :
                         LET from == [sim EXCEPT !.ghost = g]
                             to == move_ghost(from, stay_roll, selected_ix, FALSE)
                         IN  /\ to.ghost \in excursions
                             /\ TicksHome(from) > 0 =>
                                    TicksHome(to) = TicksHome(from) - 1)
    /\ (/\ sim.started
        /\ sim.ghost.current_room # sim.ghost.ghost_room
        /\ ticks + PassesPerMove * TicksHome(sim) <= MaxFairTicks)
           ~> (sim.ghost.current_room = sim.ghost.ghost_room)

\* C19 witness: the loop has ticked until the ghost, away from home at the
\* start, is back home with no path pending
C19_Witness ==
    /\ sim.started
    /\ ticks = 4 * PassesPerMove
    /\ ghost_trace = << 0, 2, 6, 7 >>
    /\ sim.ghost.current_room = sim.ghost.ghost_room
    /\ sim.ghost.path_to_target = None

\* C20: hunting is unreachable: the hunting flag is false, no hunt-end entry
\* is pending and none has fired, whatever calls were made.
C20_NoHunt ==
    /\ ~sim.flags.is_hunting
    /\ Pending("EndHunt") = <<>>
    /\ Fired("EndHunt") = <<>>

\* C20 witness: event pulses have run and brought a player's sanity to 0, and
\* scheduler entries have fired, with no hunt
C20_Witness ==
    /\ sim.obs.pulse_ran
    /\ \E i \in 1..Len(sim.players) : sim.players[i].sanity = 0
    /\ Len(fired) >= 3
    /\ ~sim.flags.is_hunting

\* C21: the ghost-room temperature before jitter, read at the clock before
\* and at the clock after some update calls, has not risen, is not below the
\* minimum room temperature at either, and is at the minimum after if it was
\* before (the call returns a temperature at both).
C21_TempMonotone ==
    is_some(query.temps) =>
        LET before == unwrap(query.temps).before
            after == unwrap(query.temps).after
        IN  /\ ~before.panicked /\ ~after.panicked
            /\ after.temp <= before.temp
            /\ before.temp >= sim.flags.ghost_room_min_temp
            /\ after.temp >= sim.flags.ghost_room_min_temp
            /\ before.temp = sim.flags.ghost_room_min_temp =>
                  after.temp = sim.flags.ghost_room_min_temp

\* C22: a pending path is never empty, and whenever a path is about to be
\* planned the target differs from the ghost's room whatever index is drawn,
\* so get_path is not called with from = to and the pop of move_room has an
\* element to take.
C22_PathNeverEmpty ==
    /\ is_some(sim.ghost.path_to_target) =>
          unwrap(sim.ghost.path_to_target) # <<>>
    /\ ~is_some(sim.ghost.path_to_target) =>
          \A selected_ix \in TargetDraws(sim.ghost, sim.map) :
              /\ next_target(sim.ghost, sim.map, selected_ix) # sim.ghost.current_room
              /\ get_path(sim.map, sim.ghost.current_room,
                          next_target(sim.ghost, sim.map, selected_ix)) # <<>>

\* C22 witness: away from home, one hop from it, with that single hop left on
\* the path: the pop that follows empties the path
C22_Witness ==
    /\ sim.ghost.current_room = 6
    /\ sim.ghost.path_to_target = Some(<< 7 >>)

\* C23: the EMF intensity is nonzero exactly when one EMF-blast-end entry is
\* pending, and there is none otherwise; orbs are visible exactly when one
\* orb-visibility-end entry is pending, and there is none otherwise; a nonzero
\* intensity is within 2..5.
C23_TimedFlagsMatched ==
    /\ Len(Pending("EndEMF")) = (IF sim.flags.emf_level # 0 THEN 1 ELSE 0)
    /\ Len(Pending("RemoveGhostOrbs")) = (IF sim.flags.orbs_visible THEN 1 ELSE 0)
    /\ sim.flags.emf_level # 0 => sim.flags.emf_level \in 2..5

\* C23 witness: a tick whose pulse met visible orbs and an intensity of 5, and
\* in which the orb end and the blast end then fired
C23_Witness ==
    /\ ticks >= 2
    /\ sim.obs.pulse_ran
    /\ Len(FiredNow("RemoveGhostOrbs")) = 1
    /\ Len(FiredNow("EndEMF")) = 1
    /\ ~sim.flags.orbs_visible
    /\ sim.flags.emf_level = 0
    /\ \E i \in 1..Len(sim.obs.blasts) : sim.obs.blasts[i].emf_before = 5

\* C24: the scheduler holds exactly one thermometer-refresh entry in every
\* state; a tick that fires it inserts exactly one new one, and no other step
\* changes it.
C24_OneThermometerEntry ==
    /\ [](Len(Pending("UpdateThermometer")) = 1)
    /\ [][IF Len(SelectSeq(sim'.obs.fired,
                           LAMBDA f : f.entry.trigger = "UpdateThermometer")) = 1
             /\ ticks' # ticks
          THEN /\ \A i \in 1..Len(sim'.obs.fired) :
                     sim'.obs.fired[i].entry.trigger = "UpdateThermometer" =>
                         sim'.obs.fired[i].entry \in Elems(sim.event_triggers)
               /\ \A i \in 1..Len(sim'.event_triggers) :
                     sim'.event_triggers[i].trigger = "UpdateThermometer" =>
                         /\ sim'.event_triggers[i] \notin Elems(sim.event_triggers)
                         /\ sim'.event_triggers[i].time =
                               sim'.cur_time + thermometer_update_interval
          ELSE \A i \in 1..Len(sim'.event_triggers) :
                     sim'.event_triggers[i].trigger = "UpdateThermometer" =>
                         sim'.event_triggers[i] \in Elems(sim.event_triggers)]_vars

\* C24 witness: the entry the constructor scheduled has fired, and so has its
\* successor; the third one is pending beside an orb end and a blast end
C24_Witness ==
    /\ Len(Fired("UpdateThermometer")) = 2
    /\ Len(sim.event_triggers) = 3
    /\ Pending("UpdateThermometer")[1].id > 2

\* the identities of the notifications in the queue
QueuedIds(self) ==
    {self.notify_queue[i].id : i \in 1..Len(self.notify_queue)}

\* C25: no notification is lost: a notification leaves the queue only in a
\* step whose broadcast carried it, so every notification update has enqueued
\* is in the queue or has been in the snapshot of a broadcast.
C25_NoNotificationLost ==
    [][\A n \in QueuedIds(sim) :
          n \in QueuedIds(sim') \/ n \in broadcast_ids']_vars

\* C25 witness: the pulse's notification has been broadcast to a connected
\* peer and the queue is empty again
C25_Witness ==
    /\ broadcast_ids # {}
    /\ sim.notify_queue = <<>>
    /\ \E a \in SrvAddrs : delivered[a] # <<>>
====
